---- MODULE Spec2Model ----
(***************************************************************************)
(* Model of backend/file_processor.py (extract_text_from_s3: the Textract  *)
(* job polling loop and paginated result aggregation) and of               *)
(* backend/language_utils.py (chunk_text and _split_by_words).             *)
(*                                                                         *)
(* Python strings are sequences of one-character strings, so that join,    *)
(* strip, split and the sentence regex are computed character by character.*)
(***************************************************************************)
EXTENDS Integers, Sequences, FiniteSets, TLC

VARIABLES
    \* ---- backend/file_processor.py: module state and locals of extract_text_from_s3
    textract,          \* the module-level client is initialised (TRUE) or None (FALSE)
    pc,                \* "start" | "loop" | "paginate" | "done"
    attempt,           \* local `attempt`
    status,            \* local `status` ("unset" before the first poll answer)
    result,            \* local `result`: the last response of get_document_text_detection
    text_lines,        \* local `text_lines`
    outcome,           \* "none" | "returned" | "raised"
    returned,          \* the returned string
    error,             \* the message of the raised RuntimeError, as its fragments
    \* ---- the OCR service (textract) and time.sleep, as the call observes them
    pages,             \* the job's result pages: a sequence of block lists
    monotone,          \* the service never reports another status after a final one
    svcStatus,         \* the last JobStatus the service reported ("NONE" before any)
    svcRaised,         \* the last get_document_text_detection call raised ClientError
    status_queries,    \* calls of get_document_text_detection(JobId) (line 92)
    followups,         \* calls with NextToken (line 106) since the last line-92 call
    slept,             \* seconds spent in time.sleep
    jobs_started,      \* successful start_document_text_detection calls
    unrecognised,      \* answers whose JobStatus is none of the three the loop tests
    only_in_progress,  \* every answer so far was IN_PROGRESS
    retryable_polls,   \* queries answered by IN_PROGRESS or by a ClientError
    \* ---- backend/language_utils.py: one call of chunk_text
    text,              \* argument `text`
    max_chars,         \* argument `max_chars`
    chunks,            \* the returned list
    cpc                \* "idle" | "ready" | "returned"

ovars == <<textract, pc, attempt, status, result, text_lines, outcome, returned,
           error, pages, monotone, svcStatus, svcRaised, status_queries, followups,
           slept, jobs_started, unrecognised, only_in_progress, retryable_polls>>
cvars == <<text, max_chars, chunks, cpc>>
vars == <<ovars, cvars>>

(***************************************************************************)
(* Bounds of the model.                                                    *)
(***************************************************************************)
MaxPages == 3
MaxUnrecognised == 2
MaxLen == 6
MaxChars == 4

(***************************************************************************)
(* Strings.                                                                *)
(***************************************************************************)
RECURSIVE join(_, _)
\* sep.join(strs)
join(sep, strs) ==
    IF strs = <<>> THEN <<>>
    ELSE IF Len(strs) = 1 THEN strs[1]
    ELSE strs[1] \o sep \o join(sep, Tail(strs))

IsPrefix(s, t) == Len(s) <= Len(t) /\ SubSeq(t, 1, Len(s)) = s

(***************************************************************************)
(* The OCR service.                                                        *)
(***************************************************************************)
Block(type, txt) == [BlockType |-> type, Text |-> txt]

\* The block lists a result page may hold.
PageChoices ==
    { <<Block("PAGE", <<>>), Block("LINE", <<"a">>), Block("WORD", <<"a">>),
        Block("LINE", <<"b", "c">>)>>,
      <<Block("LINE", <<"d">>), Block("WORD", <<"d">>)>>,
      <<Block("PAGE", <<>>)>> }

PageSeqs == UNION { [1..n -> PageChoices] : n \in 1..MaxPages }

StatusMessages == {"InvalidDocument", "InternalServerError"}

NoResult == [JobStatus |-> "unset", Blocks |-> <<>>, NextToken |-> {}, StatusMessage |-> {}]

\* The result page after `token` pages have been delivered; it carries a NextToken
\* unless it is the last one.
ServicePage(token) ==
    [JobStatus |-> "SUCCEEDED",
     Blocks |-> pages[token + 1],
     NextToken |-> IF token + 1 < Len(pages) THEN {token + 1} ELSE {},
     StatusMessage |-> {}]

\* A well-behaved service keeps a final status once it has reported it.
CanReport(s) ==
    \/ ~monotone
    \/ svcStatus \in {"NONE", "IN_PROGRESS"}
    \/ s = svcStatus

(***************************************************************************)
(* extract_text_from_s3                                                    *)
(***************************************************************************)
max_attempts == 60
sleep_in_progress == 5
sleep_on_error == 5

RECURSIVE LineTexts_Unfiltered(_)
\* every block's Text, whatever its BlockType
LineTexts_Unfiltered(blocks) ==
    IF blocks = <<>> THEN <<>>
    ELSE <<Head(blocks).Text>> \o LineTexts_Unfiltered(Tail(blocks))

RECURSIVE LineTexts(_)
\* for block in result.get('Blocks', []): if block['BlockType'] == 'LINE': append Text
LineTexts(blocks) ==
    IF blocks = <<>> THEN <<>>
    ELSE (IF Head(blocks).BlockType = "LINE" THEN <<Head(blocks).Text>> ELSE <<>>)
         \o LineTexts(Tail(blocks))

\* while attempt <= max_attempts
LoopCondition_Inclusive == attempt <= max_attempts

\* while attempt < max_attempts
LoopCondition == attempt < max_attempts

\* if attempt < max_attempts
RetryBudgetLeft_OffByOne == attempt < max_attempts

\* if attempt < max_attempts - 1 (in the ClientError handler)
RetryBudgetLeft == attempt < max_attempts - 1

\* while 'NextToken' in result
HasNextToken(r) == r.NextToken # {}

\* the outer handler: except Exception as e: raise RuntimeError("Unexpected ...")
Wrapped(msg) == <<"Unexpected error during text extraction: ">> \o msg

JobFailedMessage(r) ==
    <<"Textract job failed: ">>
    \o (IF r.StatusMessage = {} THEN <<"Unknown error">>
        ELSE <<CHOOSE m \in r.StatusMessage : TRUE>>)

TimedOutMessage == <<"Textract job timed out - took longer than expected to complete">>

PollingFailedMessage == <<"Failed to get Textract job status: ", "ClientError">>

StartFailedMessage == <<"Failed to start Textract job: ", "ClientError">>

\* raised before the try block, so it is not wrapped (its first sentence)
NotInitialisedMessage == <<"Textract client not initialized.">>

Raise(msg) ==
    /\ outcome' = "raised"
    /\ error' = msg
    /\ pc' = "done"
    /\ UNCHANGED returned

Return(txt) ==
    /\ outcome' = "returned"
    /\ returned' = txt
    /\ pc' = "done"
    /\ UNCHANGED error

Continue ==
    /\ pc' = "loop"
    /\ UNCHANGED <<outcome, returned, error>>

\* except ClientError as e: (lines 127-133), around the poll and the pagination alike
OnClientError ==
    /\ svcRaised' = TRUE
    /\ only_in_progress' = FALSE
    /\ retryable_polls' = retryable_polls + 1
    /\ IF RetryBudgetLeft
       THEN /\ slept' = slept + sleep_on_error
            /\ attempt' = attempt + 1
            /\ Continue
       ELSE /\ Raise(Wrapped(PollingFailedMessage))
            /\ UNCHANGED <<slept, attempt>>
    /\ UNCHANGED <<textract, status, result, text_lines, pages, monotone, svcStatus,
                   jobs_started, unrecognised>>

\* if textract is None: raise RuntimeError(...)
NotInitialised ==
    /\ pc = "start"
    /\ ~textract
    /\ Raise(NotInitialisedMessage)
    /\ UNCHANGED <<textract, attempt, status, result, text_lines, pages, monotone,
                   svcStatus, svcRaised, status_queries, followups, slept,
                   jobs_started, unrecognised, only_in_progress, retryable_polls>>

\* response = textract.start_document_text_detection(...); attempt = 0
StartJob ==
    /\ pc = "start"
    /\ textract
    /\ jobs_started' = jobs_started + 1
    /\ attempt' = 0
    /\ pc' = "loop"
    /\ UNCHANGED <<textract, status, result, text_lines, outcome, returned, error,
                   pages, monotone, svcStatus, svcRaised, status_queries, followups,
                   slept, unrecognised, only_in_progress, retryable_polls>>

\* start_document_text_detection raises ClientError
StartJobClientError ==
    /\ pc = "start"
    /\ textract
    /\ Raise(StartFailedMessage)
    /\ UNCHANGED <<textract, attempt, status, result, text_lines, pages, monotone,
                   svcStatus, svcRaised, status_queries, followups, slept,
                   jobs_started, unrecognised, only_in_progress, retryable_polls>>

\* What every answered line-92 query does to the service's side.
Answered(s) ==
    /\ CanReport(s)
    /\ svcStatus' = s
    /\ svcRaised' = FALSE
    /\ status_queries' = status_queries + 1
    /\ followups' = 0
    /\ status' = s

\* status == 'IN_PROGRESS': time.sleep(5); attempt += 1; continue
PollInProgress ==
    /\ pc = "loop"
    /\ LoopCondition
    /\ Answered("IN_PROGRESS")
    /\ result' = [NoResult EXCEPT !.JobStatus = "IN_PROGRESS"]
    /\ slept' = slept + sleep_in_progress
    /\ attempt' = attempt + 1
    /\ retryable_polls' = retryable_polls + 1
    /\ Continue
    /\ UNCHANGED <<textract, text_lines, pages, monotone, jobs_started, unrecognised,
                   only_in_progress>>

\* status == 'SUCCEEDED': text_lines = []; the first page's LINE blocks; then either
\* the pagination loop or the return
PollSucceeded ==
    /\ pc = "loop"
    /\ LoopCondition
    /\ Answered("SUCCEEDED")
    /\ result' = ServicePage(0)
    /\ text_lines' = LineTexts(result'.Blocks)
    /\ only_in_progress' = FALSE
    /\ IF HasNextToken(result')
       THEN /\ pc' = "paginate"
            /\ UNCHANGED <<outcome, returned, error>>
       ELSE Return(join(<<"\n">>, text_lines'))
    /\ UNCHANGED <<textract, attempt, pages, monotone, slept, jobs_started,
                   unrecognised, retryable_polls>>

\* status == 'FAILED' handled like IN_PROGRESS: sleep, consume an attempt, poll again
PollFailed_Retried ==
    /\ pc = "loop"
    /\ LoopCondition
    /\ Answered("FAILED")
    /\ \E m \in {{}} \cup {{x} : x \in StatusMessages} :
           result' = [NoResult EXCEPT !.JobStatus = "FAILED", !.StatusMessage = m]
    /\ only_in_progress' = FALSE
    /\ slept' = slept + sleep_in_progress
    /\ attempt' = attempt + 1
    /\ Continue
    /\ UNCHANGED <<textract, text_lines, pages, monotone, jobs_started, unrecognised,
                   retryable_polls>>

\* status == 'FAILED': raise RuntimeError(f"Textract job failed: {error_msg}")
PollFailed ==
    /\ pc = "loop"
    /\ LoopCondition
    /\ Answered("FAILED")
    /\ \E m \in {{}} \cup {{x} : x \in StatusMessages} :
           result' = [NoResult EXCEPT !.JobStatus = "FAILED", !.StatusMessage = m]
    /\ only_in_progress' = FALSE
    /\ Raise(Wrapped(JobFailedMessage(result')))
    /\ UNCHANGED <<textract, attempt, text_lines, pages, monotone, slept, jobs_started,
                   unrecognised, retryable_polls>>

\* any other JobStatus (the service also reports PARTIAL_SUCCESS): no branch of the
\* if/elif chain is taken and the while loop starts over
PollOtherStatus ==
    /\ pc = "loop"
    /\ LoopCondition
    /\ unrecognised < MaxUnrecognised
    /\ Answered("PARTIAL_SUCCESS")
    /\ result' = [NoResult EXCEPT !.JobStatus = "PARTIAL_SUCCESS"]
    /\ unrecognised' = unrecognised + 1
    /\ only_in_progress' = FALSE
    /\ Continue
    /\ UNCHANGED <<textract, attempt, text_lines, pages, monotone, slept, jobs_started,
                   retryable_polls>>

\* get_document_text_detection(JobId=job_id) raises ClientError
PollClientError ==
    /\ pc = "loop"
    /\ LoopCondition
    /\ status_queries' = status_queries + 1
    /\ followups' = 0
    /\ OnClientError

\* result = get_document_text_detection(JobId, NextToken); append its LINE blocks
PageOk ==
    /\ pc = "paginate"
    /\ \E t \in result.NextToken :
          /\ result' = ServicePage(t)
          /\ text_lines' = text_lines \o LineTexts(result'.Blocks)
    /\ followups' = followups + 1
    /\ svcRaised' = FALSE
    /\ IF HasNextToken(result')
       THEN UNCHANGED <<pc, outcome, returned, error>>
       ELSE Return(join(<<"\n">>, text_lines'))
    /\ UNCHANGED <<textract, attempt, status, pages, monotone, svcStatus,
                   status_queries, slept, jobs_started, unrecognised,
                   only_in_progress, retryable_polls>>

\* the follow-up query raises ClientError: the same handler as for the poll
PageClientError ==
    /\ pc = "paginate"
    /\ followups' = followups + 1
    /\ UNCHANGED status_queries
    /\ OnClientError

\* the while condition fails: raise RuntimeError("Textract job timed out ...")
TimedOut ==
    /\ pc = "loop"
    /\ ~LoopCondition
    /\ Raise(Wrapped(TimedOutMessage))
    /\ UNCHANGED <<textract, attempt, status, result, text_lines, pages, monotone,
                   svcStatus, svcRaised, status_queries, followups, slept,
                   jobs_started, unrecognised, only_in_progress, retryable_polls>>

(***************************************************************************)
(* chunk_text and _split_by_words (backend/language_utils.py)              *)
(***************************************************************************)
default_max_chars == 2000

\* The characters of the texts: a lowercase letter, an uppercase letter, a
\* sentence terminator and a whitespace character.
Alphabet == {"a", "B", ".", " "}
Whitespace == {" "}
Uppercase == {"B"}
Terminators == {".", "!", "?"}

Texts == UNION { [1..n -> Alphabet] : n \in 0..MaxLen }

Front(s) == SubSeq(s, 1, Len(s) - 1)
Last(s) == s[Len(s)]

RECURSIVE lstrip(_)
lstrip(s) == IF s # <<>> /\ Head(s) \in Whitespace THEN lstrip(Tail(s)) ELSE s

RECURSIVE rstrip(_)
rstrip(s) == IF s # <<>> /\ Last(s) \in Whitespace THEN rstrip(Front(s)) ELSE s

\* str.strip()
strip(s) == rstrip(lstrip(s))

\* The length of the whitespace-free run a non-empty, left-stripped string starts with.
WordLen(s) ==
    LET ws == {i \in 1..Len(s) : s[i] \in Whitespace}
    IN  IF ws = {} THEN Len(s) ELSE (CHOOSE i \in ws : \A j \in ws : i <= j) - 1

RECURSIVE split(_)
\* str.split(): the maximal whitespace-free runs, in order
split(s) ==
    LET t == lstrip(s)
    IN  IF t = <<>> THEN <<>>
        ELSE <<SubSeq(t, 1, WordLen(t))>> \o split(SubSeq(t, WordLen(t) + 1, Len(t)))

\* The index after a match of (?<=[.!?])\s+(?=[A-Z]) that starts at index i of t,
\* or 0 when the pattern does not match there.
SentenceBreak(t, i) ==
    IF i >= 2 /\ i <= Len(t) /\ t[i - 1] \in Terminators /\ t[i] \in Whitespace
    THEN LET rest == {j \in i..Len(t) : t[j] \notin Whitespace}
         IN  IF rest = {} THEN 0
             ELSE LET j == CHOOSE k \in rest : \A m \in rest : k <= m
                  IN  IF t[j] \in Uppercase THEN j ELSE 0
    ELSE 0

RECURSIVE SplitFrom(_, _, _)
SplitFrom(t, start, i) ==
    IF i > Len(t) THEN <<SubSeq(t, start, Len(t))>>
    ELSE IF SentenceBreak(t, i) # 0
         THEN <<SubSeq(t, start, i - 1)>>
              \o SplitFrom(t, SentenceBreak(t, i), SentenceBreak(t, i))
         ELSE SplitFrom(t, start, i + 1)

\* re.split(r'(?<=[.!?])\s+(?=[A-Z])', text)
re_split(t) == SplitFrom(t, 1, 1)

\* len(current_chunk) + len(piece) > max_chars
Exceeds_NoSpace(current_chunk, piece, max) == Len(current_chunk) + Len(piece) > max

\* len(current_chunk) + len(piece) + 1 > max_chars
Exceeds(current_chunk, piece, max) == Len(current_chunk) + Len(piece) + 1 > max

\* current_chunk += " " + piece, or current_chunk = piece when it is empty
Extended(current_chunk, piece) ==
    IF current_chunk # <<>> THEN current_chunk \o <<" ">> \o piece ELSE piece

\* the running chunk is dropped instead of being appended
Sealed_Dropped(chunk_list, current_chunk) == chunk_list

\* if current_chunk: chunks.append(current_chunk.strip())
Sealed(chunk_list, current_chunk) ==
    IF current_chunk # <<>> THEN Append(chunk_list, strip(current_chunk)) ELSE chunk_list

\* chunks.append(current_chunk.strip()) without the `if current_chunk.strip()` guard
Finished_Unguarded(chunk_list, current_chunk) == Append(chunk_list, strip(current_chunk))

\* if current_chunk.strip(): chunks.append(current_chunk.strip())
Finished(chunk_list, current_chunk) ==
    IF strip(current_chunk) # <<>> THEN Append(chunk_list, strip(current_chunk))
    ELSE chunk_list

RECURSIVE PackWords(_, _, _, _)
\* the loop of _split_by_words over words, and its final append
PackWords(words, chunk_list, current_chunk, max) ==
    IF words = <<>> THEN Finished(chunk_list, current_chunk)
    ELSE LET word == Head(words)
         IN  IF Exceeds(current_chunk, word, max)
             THEN IF current_chunk # <<>>
                  THEN PackWords(Tail(words), Append(chunk_list, strip(current_chunk)),
                                 word, max)
                  ELSE PackWords(Tail(words), Append(chunk_list, word), current_chunk, max)
             ELSE PackWords(Tail(words), chunk_list, Extended(current_chunk, word), max)

split_by_words(txt, max) == PackWords(split(txt), <<>>, <<>>, max)

RECURSIVE PackSentences(_, _, _, _)
\* the loop of chunk_text over sentences, and its final append
PackSentences(sentences, chunk_list, current_chunk, max) ==
    IF sentences = <<>> THEN Finished(chunk_list, current_chunk)
    ELSE LET sentence == strip(Head(sentences))
         IN  IF sentence = <<>>
             THEN PackSentences(Tail(sentences), chunk_list, current_chunk, max)
             ELSE IF Exceeds(current_chunk, sentence, max)
             THEN IF Len(sentence) > max
                  THEN LET word_chunks == split_by_words(sentence, max)
                       IN  PackSentences(Tail(sentences),
                                         Sealed(chunk_list, current_chunk)
                                             \o Front(word_chunks),
                                         Last(word_chunks), max)
                  ELSE PackSentences(Tail(sentences), Sealed(chunk_list, current_chunk),
                                     sentence, max)
             ELSE PackSentences(Tail(sentences), chunk_list,
                                Extended(current_chunk, sentence), max)

chunk_text(txt, max) ==
    IF txt = <<>> \/ strip(txt) = <<>> THEN <<>>
    ELSE IF Len(txt) <= max THEN <<strip(txt)>>
    ELSE PackSentences(re_split(txt), <<>>, <<>>, max)

\* One call: chunk_text has no raise statement, and no operation it applies to a
\* string and an integer raises, so the call returns for every max_chars.
CallChunkText ==
    /\ cpc = "ready"
    /\ chunks' = chunk_text(text, max_chars)
    /\ cpc' = "returned"
    /\ UNCHANGED <<text, max_chars>>

OrchestratorIdle ==
    /\ textract = FALSE
    /\ pc = "idle"
    /\ attempt = 0
    /\ status = "unset"
    /\ result = NoResult
    /\ text_lines = <<>>
    /\ outcome = "none"
    /\ returned = <<>>
    /\ error = <<>>
    /\ pages = <<>>
    /\ monotone = TRUE
    /\ svcStatus = "NONE"
    /\ svcRaised = FALSE
    /\ status_queries = 0
    /\ followups = 0
    /\ slept = 0
    /\ jobs_started = 0
    /\ unrecognised = 0
    /\ only_in_progress = TRUE
    /\ retryable_polls = 0

ChunkInit ==
    /\ OrchestratorIdle
    /\ text \in Texts
    /\ max_chars \in (0 - 1)..MaxChars
    /\ chunks = <<>>
    /\ cpc = "ready"

ChunkNext == CallChunkText /\ UNCHANGED ovars

ChunkSpec == ChunkInit /\ [][ChunkNext]_vars

ChunkIdle ==
    /\ text = <<>>
    /\ max_chars = default_max_chars
    /\ chunks = <<>>
    /\ cpc = "idle"

Init ==
    /\ textract \in BOOLEAN
    /\ pc = "start"
    /\ attempt = 0
    /\ status = "unset"
    /\ result = NoResult
    /\ text_lines = <<>>
    /\ outcome = "none"
    /\ returned = <<>>
    /\ error = <<>>
    /\ pages \in PageSeqs
    /\ monotone \in BOOLEAN
    /\ svcStatus = "NONE"
    /\ svcRaised = FALSE
    /\ status_queries = 0
    /\ followups = 0
    /\ slept = 0
    /\ jobs_started = 0
    /\ unrecognised = 0
    /\ only_in_progress = TRUE
    /\ retryable_polls = 0
    /\ ChunkIdle

Next ==
    \/ (NotInitialised /\ UNCHANGED cvars)
    \/ (StartJob /\ UNCHANGED cvars)
    \/ (StartJobClientError /\ UNCHANGED cvars)
    \/ (PollInProgress /\ UNCHANGED cvars)
    \/ (PollSucceeded /\ UNCHANGED cvars)
    \/ (PollFailed /\ UNCHANGED cvars)
    \/ (PollOtherStatus /\ UNCHANGED cvars)
    \/ (PollClientError /\ UNCHANGED cvars)
    \/ (PageOk /\ UNCHANGED cvars)
    \/ (PageClientError /\ UNCHANGED cvars)
    \/ (TimedOut /\ UNCHANGED cvars)

Spec == Init /\ [][Next]_vars

(***************************************************************************)
(* Properties of extract_text_from_s3.                                     *)
(***************************************************************************)
RECURSIVE AllBlocks(_)
\* The blocks of all pages, in page order and in-page order.
AllBlocks(ps) == IF ps = <<>> THEN <<>> ELSE Head(ps) \o AllBlocks(Tail(ps))

\* The texts of the LINE-classified blocks of a block list, in order.
LineClassified(blocks) ==
    LET sel == SelectSeq(blocks, LAMBDA b : b.BlockType = "LINE")
    IN  [i \in 1..Len(sel) |-> sel[i].Text]

RECURSIVE NewlineJoined(_)
\* The lines, each but the last followed by a newline.
NewlineJoined(lines) ==
    IF Len(lines) = 0 THEN <<>>
    ELSE IF Len(lines) = 1 THEN lines[1]
    ELSE NewlineJoined(SubSeq(lines, 1, Len(lines) - 1)) \o <<"\n">> \o lines[Len(lines)]

\* C1: whenever the call returns, the returned text is the newline-join of the
\* LINE texts of all N result pages, in page order and in-page order, and the
\* successful branch issued exactly N queries: the poll that reported SUCCEEDED
\* and N-1 follow-up queries.
C1_PaginationComplete ==
    outcome = "returned" =>
        /\ returned = NewlineJoined(LineClassified(AllBlocks(pages)))
        /\ 1 + followups = Len(pages)
        /\ ~HasNextToken(result)

\* A three-page job whose pages all hold lines has been returned after retries.
C1_Witness ==
    /\ outcome = "returned"
    /\ Len(pages) = 3
    /\ \A i \in 1..3 : LineClassified(pages[i]) # <<>>
    /\ followups = 2
    /\ attempt > 0

\* C2: while every status query has been answered IN_PROGRESS, the call issues one
\* query per attempt and never more than max_attempts, never returns text, and
\* once the bound is reached it can only fail, with the timeout error and after
\* exactly max_attempts queries.
C2_Timeout ==
    (only_in_progress /\ jobs_started = 1) =>
        /\ outcome # "returned"
        /\ status_queries = attempt
        /\ status_queries <= max_attempts
        /\ (outcome = "raised" =>
               /\ error = Wrapped(TimedOutMessage)
               /\ status_queries = max_attempts)
        /\ (outcome = "none" /\ status_queries = max_attempts =>
               /\ ENABLED TimedOut
               /\ ~ENABLED PollInProgress
               /\ ~ENABLED PollClientError)

\* The job stayed IN_PROGRESS for all polls and the call has failed.
C2_Witness ==
    /\ only_in_progress
    /\ jobs_started = 1
    /\ outcome = "raised"
    /\ status_queries = max_attempts
    /\ slept = max_attempts * sleep_in_progress

\* C3: the polling loop never starts another cycle without consuming an attempt,
\* and so performs at most max_attempts polling cycles in one call.
C3_BoundedPolling ==
    /\ [](status_queries <= max_attempts)
    /\ [][(pc = "loop" /\ pc' = "loop") => attempt' = attempt + 1]_vars

\* A get_document_text_detection call of this step raised ClientError.
QueryRaised ==
    /\ svcRaised'
    /\ (status_queries' # status_queries \/ followups' # followups)

\* C4: a transient query failure before the final attempt consumes exactly one
\* attempt, sleeps the interval of an IN_PROGRESS poll and retries; on the final
\* attempt it ends the call with the polling error; queries answered by
\* IN_PROGRESS or by a transient error never exceed max_attempts.
C4_TransientSharesBudget ==
    /\ [](retryable_polls <= max_attempts)
    /\ [][QueryRaised =>
            IF attempt < max_attempts - 1
            THEN /\ attempt' = attempt + 1
                 /\ retryable_polls' = retryable_polls + 1
                 /\ slept' = slept + sleep_in_progress
                 /\ pc' = "loop"
                 /\ attempt' < max_attempts
                 /\ outcome' = "none"
            ELSE /\ outcome' = "raised"
                 /\ error' = Wrapped(PollingFailedMessage)
                 /\ attempt' = attempt
                 /\ slept' = slept
                 /\ pc' = "done"]_vars

\* A transient failure on the final attempt has ended the call.
C4_Witness ==
    /\ outcome = "raised"
    /\ error = Wrapped(PollingFailedMessage)
    /\ svcRaised
    /\ attempt = max_attempts - 1
    /\ retryable_polls = max_attempts

\* The service answered this step's status query with FAILED.
ReportedFailed ==
    /\ status_queries' = status_queries + 1
    /\ ~svcRaised'
    /\ svcStatus' = "FAILED"

\* C5: a status query answered FAILED ends the call at once with the job-failure
\* error carrying the reported reason: no sleep, no attempt consumed, no new job,
\* and no step (so no further query) after the call has ended.
C5_FailedIsFatal ==
    /\ [][ReportedFailed =>
            /\ outcome' = "raised"
            /\ pc' = "done"
            /\ Len(error') = 3
            /\ error'[1] = "Unexpected error during text extraction: "
            /\ error'[2] = "Textract job failed: "
            /\ \A m \in result'.StatusMessage : error'[3] = m
            /\ slept' = slept
            /\ attempt' = attempt
            /\ retryable_polls' = retryable_polls
            /\ jobs_started' = jobs_started]_vars
    /\ [][pc # "done"]_vars

\* A job polled several times has been reported FAILED with a reason.
C5_Witness ==
    /\ outcome = "raised"
    /\ status = "FAILED"
    /\ result.StatusMessage = {"InvalidDocument"}
    /\ error[3] = "InvalidDocument"
    /\ attempt > 1

\* The status of the job as the call holds it.
HeldStatus ==
    IF outcome = "raised" /\ error = Wrapped(TimedOutMessage) THEN "TIMED_OUT"
    ELSE IF status = "unset" THEN "SUBMITTED"
    ELSE status

TerminalStatuses == {"SUCCEEDED", "FAILED", "TIMED_OUT"}

\* C6: once the call holds a terminal status it keeps it, and a job held as
\* SUCCEEDED is not turned into a failure of the call (stated for a service that
\* itself never leaves a final status).
C6_StatusMonotonic ==
    [][(monotone /\ HeldStatus \in TerminalStatuses) =>
          /\ HeldStatus' = HeldStatus
          /\ (HeldStatus = "SUCCEEDED" => outcome' # "raised")]_vars

\* C7: every step leaves the accumulated lines a prefix of the new accumulated
\* lines (stated for a service that itself never leaves a final status).
C7_LinesOnlyGrow ==
    [][monotone => IsPrefix(text_lines, text_lines')]_vars

(***************************************************************************)
(* Properties of chunk_text.                                               *)
(***************************************************************************)
NoWhitespace(s) == \A i \in 1..Len(s) : s[i] \notin Whitespace

\* C8: for a positive max_chars every returned chunk is non-empty, has no leading
\* or trailing whitespace, and is at most max_chars long unless it is a single
\* whitespace-free word; so a word longer than max_chars is a chunk of its own.
C8_ChunkSizeBound ==
    (cpc = "returned" /\ max_chars > 0) =>
        \A i \in 1..Len(chunks) :
            /\ chunks[i] # <<>>
            /\ chunks[i][1] \notin Whitespace
            /\ Last(chunks[i]) \notin Whitespace
            /\ (Len(chunks[i]) <= max_chars \/ NoWhitespace(chunks[i]))
            /\ \A k \in 1..Len(split(chunks[i])) :
                   Len(split(chunks[i])[k]) > max_chars => chunks[i] = split(chunks[i])[k]

\* An over-long sentence ends in an oversized word, a further sentence follows,
\* and the oversized word is a chunk of its own.
C8_Witness ==
    /\ cpc = "returned"
    /\ max_chars > 0
    /\ Len(re_split(text)) >= 2
    /\ Len(re_split(text)[1]) > max_chars
    /\ Len(Last(split(re_split(text)[1]))) > max_chars
    /\ Len(split(re_split(text)[1])) >= 2
    /\ \E i \in 1..Len(chunks) : Len(chunks[i]) > max_chars

RECURSIVE WordsOfChunks(_)
\* The words of the chunks, chunk after chunk.
WordsOfChunks(cs) == IF cs = <<>> THEN <<>> ELSE split(Head(cs)) \o WordsOfChunks(Tail(cs))

\* C9: for a positive max_chars the words of the returned chunks, in chunk order,
\* are the words of the trimmed input.
C9_WordOrder ==
    (cpc = "returned" /\ max_chars > 0) => WordsOfChunks(chunks) = split(strip(text))

\* The sentence path with a word-level fallback produced several chunks, one of
\* them holding more than one word.
C9_Witness ==
    /\ cpc = "returned"
    /\ max_chars > 0
    /\ Len(re_split(text)) >= 2
    /\ \E k \in 1..Len(re_split(text)) : Len(re_split(text)[k]) > max_chars
    /\ Len(chunks) >= 2
    /\ Len(split(text)) > Len(chunks)

\* C10: a call with a non-positive max_chars does not return.
C10_RejectsNonPositive ==
    max_chars <= 0 => cpc # "returned"

\* C11: for a positive max_chars, chunking any returned chunk again with the same
\* max_chars returns exactly that chunk as a single-element sequence, also when
\* the chunk is a single word longer than max_chars.
C11_Idempotent ==
    (cpc = "returned" /\ max_chars > 0) =>
        \A i \in 1..Len(chunks) : chunk_text(chunks[i], max_chars) = <<chunks[i]>>

\* Several chunks were returned, one of them a word longer than max_chars and
\* one of them within max_chars, and re-chunking each returns it alone.
C11_Witness ==
    /\ cpc = "returned"
    /\ max_chars > 0
    /\ Len(chunks) >= 2
    /\ \E i \in 1..Len(chunks) :
           /\ Len(chunks[i]) > max_chars
           /\ chunk_text(chunks[i], max_chars) = <<chunks[i]>>
    /\ \E i \in 1..Len(chunks) :
           /\ Len(chunks[i]) <= max_chars
           /\ chunk_text(chunks[i], max_chars) = <<chunks[i]>>

====
